---- MODULE Spec2Model ----
(***************************************************************************)
(* A model of the Python layer of the gluon probability package and of the *)
(* numpy-style random samplers:                                            *)
(*   gluon/probability/transformation/transformation.py                    *)
(*   gluon/probability/distributions/normal.py                             *)
(*   ndarray/numpy/random.py                                               *)
(*   tests/python/unittest/test_numpy_op.py (test_npx_slice)               *)
(* Six specifications share one state: SpecT (transformations and their    *)
(* weakly cached inverses), SpecC (what transformations and their inverse  *)
(* views compute), SpecN (Normal instances), SpecR (the dispatchers of     *)
(* random.py and the backend calls they make), SpecS (shuffle and the      *)
(* arrays it permutes) and SpecX (npx.slice against basic indexing).       *)
(***************************************************************************)
EXTENDS Integers, Sequences, FiniteSets, TLC

VARIABLES
    \* ---- transformation.py
    inv_ref,    \* forward object -> its _inv attribute: NoRef or a weakref's referent
    alive,      \* the _InverseTransformation objects not yet collected
    fwd_of,     \* _InverseTransformation object -> its _inv attribute (strong)
    held,       \* the inverse objects the caller holds a strong reference to
    next_id,    \* the next fresh object identity
    tlast,      \* what the last property access did and returned
    tattr,      \* forward object -> its attributes _F, _loc and _scale
    cargs,      \* the tensors x and y the caller passes to a transformation
    clast,      \* the last expression evaluated on a transformation, and its outcome
    \* ---- normal.py
    normals,    \* the Normal instances, by identity: attribute name -> value
    nlast,      \* what the last Normal method did and returned
    \* ---- random.py
    rargs,      \* the arguments the caller passes to a function of random.py
    arrays,     \* the caller's ndarrays, by identity: a sequence of sub-arrays
    calls,      \* the backend (_npi) calls the last operation made, in order
    rlast,      \* the last random.py operation: its arguments and its outcome
    \* ---- test_numpy_op.py
    xargs,      \* the array shape and the begin, end, step lists of one slice
    xlast       \* what the last run of the slice test computed

tvars == <<inv_ref, alive, fwd_of, held, next_id, tlast>>
nvars == <<normals, nlast>>
rvars == <<rargs, arrays, calls, rlast>>
cvars == <<tattr, cargs, clast>>
xvars == <<xargs, xlast>>
vars == <<inv_ref, alive, fwd_of, held, next_id, tlast, tattr, cargs, clast, normals, nlast,
          rargs, arrays, calls, rlast, xargs, xlast>>

(***************************************************************************)
(* transformation.py                                                       *)
(***************************************************************************)

\* Bound: how many _InverseTransformation objects a run may allocate.
MaxInv == 4

\* self._inv = None
NoRef == 0

\* The forward transformations under test: an ExpTransform and an AffineTransform.
ExpT == 1
AffineT == 2
Forward == {ExpT, AffineT}

\* Identities of the inverse objects: disjoint from the forward ones.
FirstInvId == AffineT + 1
InvIds == FirstInvId .. (FirstInvId + MaxInv - 1)

\* Calling a weakref.ref: the referent while it lives, None afterwards.
Deref(w) == IF w \in alive THEN w ELSE NoRef

\* Mutants of Transformation.inv.
TransformationInvNoInstall(t) ==
    LET inv0 == IF inv_ref[t] # NoRef THEN Deref(inv_ref[t]) ELSE NoRef
    IN  IF inv0 = NoRef
        THEN [ret |-> next_id, created |-> TRUE, ref |-> inv_ref[t]]
        ELSE [ret |-> inv0, created |-> FALSE, ref |-> inv_ref[t]]

TransformationInvNoRecreate(t) ==
    LET inv0 == IF inv_ref[t] # NoRef THEN Deref(inv_ref[t]) ELSE NoRef
    IN  IF inv_ref[t] = NoRef
        THEN [ret |-> next_id, created |-> TRUE, ref |-> next_id]
        ELSE [ret |-> inv0, created |-> FALSE, ref |-> inv_ref[t]]

\* Transformation.inv (the property getter) on forward object t: the object it
\* returns, whether it constructed one, and the new value of t._inv.
TransformationInv(t) ==
    LET inv0 == IF inv_ref[t] # NoRef THEN Deref(inv_ref[t]) ELSE NoRef
    IN  IF inv0 = NoRef
        THEN [ret |-> next_id, created |-> TRUE, ref |-> next_id]
        ELSE [ret |-> inv0, created |-> FALSE, ref |-> inv_ref[t]]

\* Mutant of _InverseTransformation.inv: the view returns itself.
InverseInvSelf(i, fwd) == i

\* _InverseTransformation.inv on inverse object i whose _inv attribute is fwd.
InverseInv(i, fwd) == fwd

\* _InverseTransformation.__init__(forward_transformation): the _inv attribute
\* of the new object.
InverseInit(forward_transformation) == forward_transformation

TInit ==
    /\ inv_ref = [t \in Forward |-> NoRef]
    /\ alive = {}
    /\ fwd_of = [i \in InvIds |-> NoRef]
    /\ held = {}
    /\ next_id = FirstInvId
    /\ tlast = [op |-> "none", t |-> NoRef, ret |-> NoRef, created |-> FALSE,
                cached |-> NoRef, cached_live |-> FALSE, earlier_held |-> {},
                kept |-> FALSE]

\* The heap after the getter ran on t with outcome r.
AfterGetter(t, r) ==
    /\ inv_ref' = [inv_ref EXCEPT ![t] = r.ref]
    /\ alive' = IF r.created THEN alive \cup {r.ret} ELSE alive
    /\ fwd_of' = IF r.created THEN [fwd_of EXCEPT ![r.ret] = InverseInit(t)] ELSE fwd_of
    /\ next_id' = IF r.created THEN next_id + 1 ELSE next_id

\* What an access observed before it ran.
Before(t) ==
    [cached |-> inv_ref[t],
     cached_live |-> inv_ref[t] \in alive,
     earlier_held |-> {i \in held : fwd_of[i] = t}]

\* The caller evaluates t.inv and either binds the result to a variable (keep)
\* or lets it go at once.
AccessInv(t, keep) ==
    LET r == TransformationInv(t)
        b == Before(t)
    IN  /\ (r.created => next_id \in InvIds)
        /\ AfterGetter(t, r)
        /\ held' = IF keep /\ r.ret # NoRef THEN held \cup {r.ret} ELSE held
        /\ tlast' = [op |-> "inv", t |-> t, ret |-> r.ret, created |-> r.created,
                     cached |-> b.cached, cached_live |-> b.cached_live,
                     earlier_held |-> b.earlier_held, kept |-> keep]

\* The caller evaluates t.inv.inv: the forward getter, then the inverse's.
AccessInvInv(t) ==
    LET r == TransformationInv(t)
        b == Before(t)
        f == IF r.created THEN InverseInit(t)
             ELSE IF r.ret \in InvIds THEN fwd_of[r.ret] ELSE NoRef
    IN  /\ (r.created => next_id \in InvIds)
        /\ AfterGetter(t, r)
        /\ held' = held
        /\ tlast' = [op |-> "inv.inv", t |-> t,
                     ret |-> IF r.ret = NoRef THEN NoRef ELSE InverseInv(r.ret, f),
                     created |-> r.created,
                     cached |-> b.cached, cached_live |-> b.cached_live,
                     earlier_held |-> b.earlier_held, kept |-> FALSE]

\* The caller deletes or rebinds a variable that held inverse object i.
Drop(i) ==
    /\ i \in held
    /\ held' = held \ {i}
    /\ UNCHANGED <<inv_ref, alive, fwd_of, next_id, tlast>>

\* The runtime reclaims an inverse object no strong reference reaches: the
\* forward object's weakref does not keep it alive.
Collect(i) ==
    /\ i \in alive
    /\ i \notin held
    /\ alive' = alive \ {i}
    /\ UNCHANGED <<inv_ref, fwd_of, held, next_id, tlast>>

TNext ==
    \/ \E t \in Forward, keep \in BOOLEAN : AccessInv(t, keep) /\ UNCHANGED <<nvars, rvars, cvars, xvars>>
    \/ \E t \in Forward : AccessInvInv(t) /\ UNCHANGED <<nvars, rvars, cvars, xvars>>
    \/ \E i \in InvIds : Drop(i) /\ UNCHANGED <<nvars, rvars, cvars, xvars>>
    \/ \E i \in InvIds : Collect(i) /\ UNCHANGED <<nvars, rvars, cvars, xvars>>

(***************************************************************************)
(* Numbers.  Tensor elements are modelled exactly, as elements             *)
(* (a + b*sqrt(2)) / d of the field Q(sqrt 2), so that math.sqrt(2) is a   *)
(* number of the model and no identity holds by rounding.  A division by   *)
(* zero yields the non-finite element NaN, which every operation keeps.    *)
(***************************************************************************)

Abs(n) == IF n < 0 THEN -n ELSE n

RECURSIVE Gcd(_, _)
Gcd(x, y) == IF y = 0 THEN x ELSE Gcd(y, x % y)

NaN == [a |-> 0, b |-> 0, d |-> 0]

IsNaN(x) == x.d = 0

\* (a + b*sqrt(2)) / d in lowest terms with d > 0.
Q(a, b, d) ==
    IF d = 0 THEN NaN
    ELSE LET g == Gcd(Gcd(Abs(a), Abs(b)), Abs(d))
             s == IF d < 0 THEN -1 ELSE 1
         IN  [a |-> (s * a) \div g, b |-> (s * b) \div g, d |-> (s * d) \div g]

Rat(n, d) == Q(n, 0, d)

Add(x, y) ==
    IF IsNaN(x) \/ IsNaN(y) THEN NaN
    ELSE Q(x.a * y.d + y.a * x.d, x.b * y.d + y.b * x.d, x.d * y.d)

Neg(x) == IF IsNaN(x) THEN NaN ELSE Q(-x.a, -x.b, x.d)

Sub(x, y) == Add(x, Neg(y))

Mul(x, y) ==
    IF IsNaN(x) \/ IsNaN(y) THEN NaN
    ELSE Q(x.a * y.a + 2 * x.b * y.b, x.a * y.b + x.b * y.a, x.d * y.d)

\* 1 / ((a + b*sqrt 2)/d) = d*(a - b*sqrt 2) / (a*a - 2*b*b).
Div(x, y) ==
    IF IsNaN(x) \/ IsNaN(y) \/ (y.a = 0 /\ y.b = 0) THEN NaN
    ELSE Mul(x, Q(y.d * y.a, -(y.d * y.b), y.a * y.a - 2 * y.b * y.b))

\* The sign of a + b*sqrt(2), for d > 0.
Sign(x) ==
    IF x.a = 0 /\ x.b = 0 THEN 0
    ELSE IF x.a >= 0 /\ x.b >= 0 THEN 1
    ELSE IF x.a <= 0 /\ x.b <= 0 THEN -1
    ELSE IF x.a > 0 THEN (IF x.a * x.a > 2 * x.b * x.b THEN 1 ELSE -1)
    ELSE (IF 2 * x.b * x.b > x.a * x.a THEN 1 ELSE -1)

AbsQ(x) == IF IsNaN(x) THEN NaN ELSE IF Sign(x) < 0 THEN Neg(x) ELSE x

Zero == Rat(0, 1)
One == Rat(1, 1)
Two == Rat(2, 1)
Half == Rat(1, 2)

\* math.sqrt(2)
Sqrt2 == Q(0, 1, 1)

\* The backend's error function and its inverse, a pair of mutually inverse
\* odd increasing bijections between the reals and (-1, 1):
\* y / (1 + |y|) and x / (1 - |x|) stand for them.
erf(y) == Div(y, Add(One, AbsQ(y)))

erfinv(x) ==
    IF IsNaN(x) \/ Sign(Sub(One, AbsQ(x))) <= 0 THEN NaN
    ELSE Div(x, Sub(One, AbsQ(x)))

(***************************************************************************)
(* Tensors: a shape, () or (n,), and the element the tensor is filled      *)
(* with.  A Python scalar has shape ().                                    *)
(***************************************************************************)

BadShape == <<0, 0>>

\* The shape two operands broadcast to.
Bc(s1, s2) ==
    IF s1 = BadShape \/ s2 = BadShape THEN BadShape
    ELSE IF s1 = <<>> THEN s2
    ELSE IF s2 = <<>> THEN s1
    ELSE IF s1 = s2 THEN s1
    ELSE IF s1 = <<1>> THEN s2
    ELSE IF s2 = <<1>> THEN s1
    ELSE BadShape

T(shape, x) == [shape |-> shape, x |-> x]
Scalar(x) == T(<<>>, x)

VAdd(u, v) == T(Bc(u.shape, v.shape), Add(u.x, v.x))
VSub(u, v) == T(Bc(u.shape, v.shape), Sub(u.x, v.x))
VMul(u, v) == T(Bc(u.shape, v.shape), Mul(u.x, v.x))
VDiv(u, v) == T(Bc(u.shape, v.shape), Div(u.x, v.x))
VNeg(u) == T(u.shape, Neg(u.x))
VSquare(u) == T(u.shape, Mul(u.x, u.x))

\* F.np.broadcast_to(v, shape): the backend refuses a shape v does not
\* broadcast to.
np_broadcast_to(v, shape) ==
    IF Bc(v.shape, shape) = shape THEN T(shape, v.x) ELSE T(BadShape, v.x)

(***************************************************************************)
(* normal.py                                                               *)
(***************************************************************************)

\* Bounds: numerators of the parameters and arguments, the grid of
\* probabilities k/PGrid, and the number of Normal instances on the heap.
NumRange == 1
PGrid == 3
MaxNormals == 2

\* The values of loc and scale (halves, zero and negatives among them), the
\* points a density or a cdf is evaluated at, and the probabilities.
Nums == {Rat(n, 2) : n \in (-1) .. NumRange}
Points == {Rat(n, 1) : n \in 0 .. NumRange}
Probs == {Rat(k, PGrid) : k \in 1 .. (PGrid - 1)}
ParamShapes == {<<>>, <<2>>}
BatchShapes == {<<2>>, <<3>>}

\* An attribute the instance does not have.
Unset == [kind |-> "unset"]
\* Python's None, as a value
NoneV == [kind |-> "None"]
Attrs == {"_loc", "_scale", "loc", "scale", "_F"}

NoAttrs == [n \in Attrs |-> Unset]

\* Normal.__init__(loc, scale, F): the attributes of the constructed instance.
NormalInit(loc, scale, F) ==
    [NoAttrs EXCEPT !["_F"] = F, !["_loc"] = loc, !["_scale"] = scale]

Has(self, names) == \A n \in names : self[n] # Unset

\* The outcome of a method: the exception it raises or "None", what it
\* returns, and the heap it leaves.
Raise(e, heap) == [exc |-> e, ret |-> NoneV, heap |-> heap]
Return(v, heap) == [exc |-> "None", ret |-> v, heap |-> heap]

\* A backend error on operands that do not broadcast.
Checked(v, heap) ==
    IF v.shape = BadShape THEN Raise("MXNetError", heap) ELSE Return(v, heap)

\* Normal.variance
variance(self) == VSquare(self["_scale"])

\* Normal.log_prob(value): quad - log(log_of) - log(sqrt(2*pi)).
log_prob(heap, i, value) ==
    LET self == heap[i]
    IN  IF ~Has(self, {"_F", "_loc", "_scale"}) THEN Raise("AttributeError", heap)
        ELSE LET d == VSub(value, self["_loc"])
                 quad == VDiv(VNeg(VSquare(d)), VMul(Scalar(Two), variance(self)))
             IN  IF quad.shape = BadShape THEN Raise("MXNetError", heap)
                 ELSE Return([quad |-> quad, log_of |-> self["_scale"],
                              const |-> "log(sqrt(2*pi))"], heap)

\* Normal.sample(size)
sample(heap, i, size) ==
    LET self == heap[i]
    IN  IF ~Has(self, {"_F", "_loc", "_scale"}) THEN Raise("AttributeError", heap)
        ELSE Return([call |-> "np.random.normal",
                     args |-> <<self["_loc"], self["_scale"], size>>], heap)

\* Normal.sample_n(batch_size)
sample_n(heap, i, batch_size) ==
    LET self == heap[i]
    IN  IF ~Has(self, {"_F", "_loc", "_scale"}) THEN Raise("AttributeError", heap)
        ELSE Return([call |-> "npx.random.normal_n",
                     args |-> <<self["_loc"], self["_scale"], batch_size>>], heap)

\* Mutant of Normal.broadcast_to: the receiver is rebound and returned.
broadcast_to_in_place(heap, i, batch_shape) ==
    LET self == heap[i]
    IN  IF ~Has(self, {"_F", "_loc", "_scale"}) THEN Raise("AttributeError", heap)
        ELSE LET l == np_broadcast_to(self["_loc"], batch_shape)
                 c == np_broadcast_to(self["_scale"], batch_shape)
             IN  IF l.shape = BadShape \/ c.shape = BadShape
                 THEN Raise("MXNetError", heap)
                 ELSE Return([ref |-> i],
                             [heap EXCEPT ![i] = [self EXCEPT !["_loc"] = l,
                                                              !["_scale"] = c]])

\* Normal.broadcast_to(batch_shape): self.__new__(type(self)), the attributes
\* loc and scale set on the new object, then the base class's __init__(F=F).
broadcast_to(heap, i, batch_shape) ==
    LET self == heap[i]
    IN  IF ~Has(self, {"_F", "_loc", "_scale"}) THEN Raise("AttributeError", heap)
        ELSE LET l == np_broadcast_to(self["_loc"], batch_shape)
                 c == np_broadcast_to(self["_scale"], batch_shape)
                 new_instance == [NoAttrs EXCEPT !["loc"] = l, !["scale"] = c,
                                                 !["_F"] = self["_F"]]
             IN  IF l.shape = BadShape \/ c.shape = BadShape
                 THEN Raise("MXNetError", heap)
                 ELSE Return([ref |-> Len(heap) + 1], Append(heap, new_instance))

\* Mutant of Normal.support: the placeholder returns None.
support_pass(heap, i) == Return(NoneV, heap)

\* Normal.support()
support(heap, i) == Raise("NotImplementedError", heap)

\* Normal.cdf(value)
cdf(heap, i, value) ==
    LET self == heap[i]
    IN  IF ~Has(self, {"_F", "_loc", "_scale"}) THEN Raise("AttributeError", heap)
        ELSE LET standarized_samples ==
                     VDiv(VSub(value, self["_loc"]),
                          VMul(Scalar(Sqrt2), self["_scale"]))
                 erf_term == T(standarized_samples.shape, erf(standarized_samples.x))
             IN  Checked(VMul(Scalar(Half), VAdd(Scalar(One), erf_term)), heap)

\* Normal.icdf(value)
icdf(heap, i, value) ==
    LET self == heap[i]
    IN  IF ~Has(self, {"_F", "_loc", "_scale"}) THEN Raise("AttributeError", heap)
        ELSE LET arg == VSub(VMul(Scalar(Two), value), Scalar(One))
                 e == T(arg.shape, erfinv(arg.x))
             IN  Checked(VAdd(self["_loc"],
                              VMul(VMul(self["_scale"], e), Scalar(Sqrt2))), heap)

\* Normal.mean
Normal_mean(heap, i) ==
    LET self == heap[i]
    IN  IF ~Has(self, {"_loc"}) THEN Raise("AttributeError", heap)
        ELSE Return(self["_loc"], heap)

\* Normal.variance, as the caller reads it
Normal_variance(heap, i) ==
    LET self == heap[i]
    IN  IF ~Has(self, {"_scale"}) THEN Raise("AttributeError", heap)
        ELSE Return(variance(self), heap)

\* Normal._natural_params
natural_params(heap, i) ==
    LET self == heap[i]
    IN  IF ~Has(self, {"_F", "_loc", "_scale"}) THEN Raise("AttributeError", heap)
        ELSE LET v == variance(self)
                 fst == VDiv(self["_loc"], v)
                 snd == VMul(Scalar(Neg(Half)), VDiv(Scalar(One), v))
             IN  IF fst.shape = BadShape THEN Raise("MXNetError", heap)
                 ELSE Return([fst |-> fst, snd |-> snd], heap)

\* Normal._log_normalizer: a property whose getter takes two more arguments
\* than a property access passes.
log_normalizer(heap, i) == Raise("TypeError", heap)

NInit ==
    /\ \E loc \in Nums, scale \in Nums, sh \in ParamShapes :
          normals = <<NormalInit(T(sh, loc), T(sh, scale), [F |-> "ndarray"])>>
    /\ nlast = [op |-> "none", recv |-> 0, arg |-> NoneV, exc |-> "None",
                ret |-> NoneV, pre |-> <<>>]

\* The caller invokes method op on instance i with argument arg; out is the
\* method's outcome.
Invoke(op, i, arg, out) ==
    \E o \in {out} :
        /\ Len(o.heap) <= MaxNormals
        /\ normals' = o.heap
        /\ nlast' = [op |-> op, recv |-> i, arg |-> arg, exc |-> o.exc,
                     ret |-> o.ret, pre |-> normals]

Instances == DOMAIN normals
Sizes == {NoneV, [kind |-> "shape", dims |-> <<2>>]}

LogProb(i, value) == Invoke("log_prob", i, value, log_prob(normals, i, value))
Sample(i, size) == Invoke("sample", i, size, sample(normals, i, size))
SampleN(i, size) == Invoke("sample_n", i, size, sample_n(normals, i, size))
BroadcastTo(i, shape) ==
    Invoke("broadcast_to", i, [kind |-> "shape", dims |-> shape], broadcast_to(normals, i, shape))
Support(i) == Invoke("support", i, NoneV, support(normals, i))
Cdf(i, value) == Invoke("cdf", i, value, cdf(normals, i, value))
Icdf(i, value) == Invoke("icdf", i, value, icdf(normals, i, value))
Mean(i) == Invoke("mean", i, NoneV, Normal_mean(normals, i))
Variance(i) == Invoke("variance", i, NoneV, Normal_variance(normals, i))
NaturalParams(i) == Invoke("_natural_params", i, NoneV, natural_params(normals, i))
LogNormalizer(i) == Invoke("_log_normalizer", i, NoneV, log_normalizer(normals, i))

\* The caller evaluates d.cdf(d.icdf(p)).
CdfOfIcdf(i, p) ==
    LET q == icdf(normals, i, p)
    IN  Invoke("cdf(icdf)", i, p,
               IF q.exc # "None" THEN q ELSE cdf(q.heap, i, q.ret))

NNext ==
    \/ \E i \in Instances, v \in Points : LogProb(i, Scalar(v)) /\ UNCHANGED <<tvars, rvars, cvars, xvars>>
    \/ \E i \in Instances, n \in Sizes : Sample(i, n) /\ UNCHANGED <<tvars, rvars, cvars, xvars>>
    \/ \E i \in Instances, n \in Sizes : SampleN(i, n) /\ UNCHANGED <<tvars, rvars, cvars, xvars>>
    \/ \E i \in Instances, sh \in BatchShapes : BroadcastTo(i, sh) /\ UNCHANGED <<tvars, rvars, cvars, xvars>>
    \/ \E i \in Instances : Support(i) /\ UNCHANGED <<tvars, rvars, cvars, xvars>>
    \/ \E i \in Instances, v \in Points : Cdf(i, Scalar(v)) /\ UNCHANGED <<tvars, rvars, cvars, xvars>>
    \/ \E i \in Instances, p \in Probs : Icdf(i, Scalar(p)) /\ UNCHANGED <<tvars, rvars, cvars, xvars>>
    \/ \E i \in Instances : Mean(i) /\ UNCHANGED <<tvars, rvars, cvars, xvars>>
    \/ \E i \in Instances : Variance(i) /\ UNCHANGED <<tvars, rvars, cvars, xvars>>
    \/ \E i \in Instances : NaturalParams(i) /\ UNCHANGED <<tvars, rvars, cvars, xvars>>
    \/ \E i \in Instances : LogNormalizer(i) /\ UNCHANGED <<tvars, rvars, cvars, xvars>>
    \/ \E i \in Instances, p \in Probs : CdfOfIcdf(i, Scalar(p)) /\ UNCHANGED <<tvars, rvars, cvars, xvars>>

(***************************************************************************)
(* random.py                                                               *)
(***************************************************************************)

\* Bounds: how many distinct tensors and distinct scalars an argument is
\* drawn from, the length of a pvals sequence, and the rows of an array.
MaxArg == 2
MaxPvals == 2
MaxRows == 3

Shape(dims) == [kind |-> "shape", dims |-> dims]
Tensor(n) == [kind |-> "np_ndarray", id |-> n, shape |-> Shape(<<n>>)]
Number(n) == [kind |-> "scalar", v |-> n]

\* The values a distribution parameter is drawn from: mxnet.numpy ndarrays
\* and Python numbers.
Tensors == {Tensor(n) : n \in 1 .. MaxArg}
Params == Tensors \cup {Number(n) : n \in 1 .. MaxArg}
SizeArgs == {NoneV, Shape(<<>>), Shape(<<2>>)}
DtypeArgs == {NoneV, [kind |-> "dtype", name |-> "float64"]}
CtxArgs == {NoneV, [kind |-> "ctx", dev |-> "gpu(0)"]}
OutArgs == {NoneV, [kind |-> "np_ndarray", id |-> 0, shape |-> Shape(<<>>)],
            [kind |-> "np_ndarray", id |-> 0, shape |-> Shape(<<3>>)]}

\* current_context()
current_context == [kind |-> "ctx", dev |-> "cpu(0)"]

\* isinstance(x, np_ndarray)
is_np_ndarray(x) == x.kind = "np_ndarray"

\* One call of a backend operator: its positional inputs and its keywords.
Call(fn, inputs, kw) == [fn |-> fn, inputs |-> inputs, kw |-> kw]

\* The outcome of an operation that returns what its i-th backend call returned.
Backend(i) == [kind |-> "backend", call |-> i]
Returns(ret, cs) == [exc |-> "None", ret |-> ret, calls |-> cs]
Raises(e) == [exc |-> e, ret |-> NoneV, calls |-> <<>>]

\* Mutant of uniform: the (scalar, tensor) branch passes high under low's name.
uniform_swapped(low, high, size, dtype, ctx, out) ==
    LET input_type == <<is_np_ndarray(low), is_np_ndarray(high)>>
        dtype1 == IF dtype = NoneV THEN [kind |-> "dtype", name |-> "float32"] ELSE dtype
        ctx1 == IF ctx = NoneV THEN current_context ELSE ctx
        size1 == IF size = Shape(<<>>) THEN NoneV ELSE size
        rest == [size |-> size1, ctx |-> ctx1, dtype |-> dtype1, out |-> out]
    IN  IF input_type = <<TRUE, TRUE>>
        THEN Returns(Backend(1), <<Call("_npi.uniform", <<low, high>>,
                 [low |-> NoneV, high |-> NoneV] @@ rest)>>)
        ELSE IF input_type = <<FALSE, TRUE>>
        THEN Returns(Backend(1), <<Call("_npi.uniform", <<low>>,
                 [low |-> high, high |-> NoneV] @@ rest)>>)
        ELSE IF input_type = <<TRUE, FALSE>>
        THEN Returns(Backend(1), <<Call("_npi.uniform", <<low>>,
                 [low |-> NoneV, high |-> high] @@ rest)>>)
        ELSE Returns(Backend(1), <<Call("_npi.uniform", <<>>,
                 [low |-> low, high |-> high] @@ rest)>>)

\* uniform(low, high, size, dtype, ctx, out)
uniform(low, high, size, dtype, ctx, out) ==
    LET input_type == <<is_np_ndarray(low), is_np_ndarray(high)>>
        dtype1 == IF dtype = NoneV THEN [kind |-> "dtype", name |-> "float32"] ELSE dtype
        ctx1 == IF ctx = NoneV THEN current_context ELSE ctx
        size1 == IF size = Shape(<<>>) THEN NoneV ELSE size
        rest == [size |-> size1, ctx |-> ctx1, dtype |-> dtype1, out |-> out]
    IN  IF input_type = <<TRUE, TRUE>>
        THEN Returns(Backend(1), <<Call("_npi.uniform", <<low, high>>,
                 [low |-> NoneV, high |-> NoneV] @@ rest)>>)
        ELSE IF input_type = <<FALSE, TRUE>>
        THEN Returns(Backend(1), <<Call("_npi.uniform", <<high>>,
                 [low |-> low, high |-> NoneV] @@ rest)>>)
        ELSE IF input_type = <<TRUE, FALSE>>
        THEN Returns(Backend(1), <<Call("_npi.uniform", <<low>>,
                 [low |-> NoneV, high |-> high] @@ rest)>>)
        ELSE Returns(Backend(1), <<Call("_npi.uniform", <<>>,
                 [low |-> low, high |-> high] @@ rest)>>)

\* normal(loc, scale, size, dtype, ctx, out)
normal(loc, scale, size, dtype, ctx, out) ==
    LET input_type == <<is_np_ndarray(loc), is_np_ndarray(scale)>>
        dtype1 == IF dtype = NoneV THEN [kind |-> "dtype", name |-> "float32"] ELSE dtype
        ctx1 == IF ctx = NoneV THEN current_context ELSE ctx
        size1 == IF size = Shape(<<>>) THEN NoneV ELSE size
        rest == [size |-> size1, ctx |-> ctx1, dtype |-> dtype1, out |-> out]
    IN  IF input_type = <<TRUE, TRUE>>
        THEN Returns(Backend(1), <<Call("_npi.normal", <<loc, scale>>,
                 [loc |-> NoneV, scale |-> NoneV] @@ rest)>>)
        ELSE IF input_type = <<FALSE, TRUE>>
        THEN Returns(Backend(1), <<Call("_npi.normal", <<scale>>,
                 [loc |-> loc, scale |-> NoneV] @@ rest)>>)
        ELSE IF input_type = <<TRUE, FALSE>>
        THEN Returns(Backend(1), <<Call("_npi.normal", <<loc>>,
                 [loc |-> NoneV, scale |-> scale] @@ rest)>>)
        ELSE Returns(Backend(1), <<Call("_npi.normal", <<>>,
                 [loc |-> loc, scale |-> scale] @@ rest)>>)

\* Mutant of gamma: the shape of out does not replace the caller's size.
gamma_keeps_size(shape, scale, size, dtype, ctx, out) ==
    LET input_type == <<is_np_ndarray(shape), is_np_ndarray(scale)>>
        dtype1 == IF dtype = NoneV THEN [kind |-> "dtype", name |-> "float32"] ELSE dtype
        ctx1 == IF ctx = NoneV THEN current_context ELSE ctx
        size0 == size
        size1 == IF size0 = Shape(<<>>) THEN NoneV ELSE size0
        rest == [size |-> size1, ctx |-> ctx1, dtype |-> dtype1, out |-> out]
    IN  IF input_type = <<TRUE, TRUE>>
        THEN Returns(Backend(1), <<Call("_npi.gamma", <<shape, scale>>,
                 [shape |-> NoneV, scale |-> NoneV] @@ rest)>>)
        ELSE IF input_type = <<FALSE, TRUE>>
        THEN Returns(Backend(1), <<Call("_npi.gamma", <<scale>>,
                 [shape |-> shape, scale |-> NoneV] @@ rest)>>)
        ELSE IF input_type = <<TRUE, FALSE>>
        THEN Returns(Backend(1), <<Call("_npi.gamma", <<shape>>,
                 [shape |-> NoneV, scale |-> scale] @@ rest)>>)
        ELSE Returns(Backend(1), <<Call("_npi.gamma", <<>>,
                 [shape |-> shape, scale |-> scale] @@ rest)>>)

\* gamma(shape, scale, size, dtype, ctx, out)
gamma(shape, scale, size, dtype, ctx, out) ==
    LET input_type == <<is_np_ndarray(shape), is_np_ndarray(scale)>>
        dtype1 == IF dtype = NoneV THEN [kind |-> "dtype", name |-> "float32"] ELSE dtype
        ctx1 == IF ctx = NoneV THEN current_context ELSE ctx
        size0 == IF out # NoneV THEN out.shape ELSE size
        size1 == IF size0 = Shape(<<>>) THEN NoneV ELSE size0
        rest == [size |-> size1, ctx |-> ctx1, dtype |-> dtype1, out |-> out]
    IN  IF input_type = <<TRUE, TRUE>>
        THEN Returns(Backend(1), <<Call("_npi.gamma", <<shape, scale>>,
                 [shape |-> NoneV, scale |-> NoneV] @@ rest)>>)
        ELSE IF input_type = <<FALSE, TRUE>>
        THEN Returns(Backend(1), <<Call("_npi.gamma", <<scale>>,
                 [shape |-> shape, scale |-> NoneV] @@ rest)>>)
        ELSE IF input_type = <<TRUE, FALSE>>
        THEN Returns(Backend(1), <<Call("_npi.gamma", <<shape>>,
                 [shape |-> NoneV, scale |-> scale] @@ rest)>>)
        ELSE Returns(Backend(1), <<Call("_npi.gamma", <<>>,
                 [shape |-> shape, scale |-> scale] @@ rest)>>)

\* The values of pvals: a framework NDArray, a foreign numpy.ndarray, or a
\* list or tuple whose elements are floats, lists or tuples.
RECURSIVE SeqsUpTo(_, _)
SeqsUpTo(S, n) ==
    IF n = 0 THEN {<<>>}
    ELSE LET shorter == SeqsUpTo(S, n - 1)
         IN  shorter \cup {Append(q, e) : q \in shorter, e \in S}

PvalsArgs ==
    {[kind |-> k, elems |-> <<>>] : k \in {"NDArray", "numpy.ndarray"}}
    \cup {[kind |-> k, elems |-> es] :
             k \in {"list", "tuple"}, es \in SeqsUpTo({"float", "list", "tuple"}, MaxPvals)}

\* isinstance(pvals, NDArray), isinstance(pvals, np.ndarray)
is_NDArray(x) == x.kind = "NDArray"
is_numpy_ndarray(x) == x.kind = "numpy.ndarray"

\* any(isinstance(i, list) for i in pvals)
any_list(pvals) == \E k \in DOMAIN pvals.elems : pvals.elems[k] = "list"

\* Mutant of multinomial: the nesting check is left out.
multinomial_unchecked(n, pvals, size) ==
    IF is_NDArray(pvals)
    THEN Returns(Backend(1), <<Call("_npi.multinomial", <<pvals>>,
             [pvals |-> NoneV, n |-> n, size |-> size])>>)
    ELSE IF is_numpy_ndarray(pvals) THEN Raises("ValueError")
    ELSE Returns(Backend(1), <<Call("_npi.multinomial", <<>>,
             [n |-> n, pvals |-> pvals, size |-> size])>>)

\* multinomial(n, pvals, size)
multinomial(n, pvals, size) ==
    IF is_NDArray(pvals)
    THEN Returns(Backend(1), <<Call("_npi.multinomial", <<pvals>>,
             [pvals |-> NoneV, n |-> n, size |-> size])>>)
    ELSE IF is_numpy_ndarray(pvals) THEN Raises("ValueError")
    ELSE IF any_list(pvals) THEN Raises("ValueError")
    ELSE Returns(Backend(1), <<Call("_npi.multinomial", <<>>,
             [n |-> n, pvals |-> pvals, size |-> size])>>)

\* The two module-level definitions of the name multivariate_normal, in the
\* order the module body executes them.
multivariate_normal_defs ==
    <<[line |-> 249, params |-> {"mean", "cov", "size", "check_valid", "tol"}],
      [line |-> 552, params |-> {"mean", "cov", "size"}]>>

\* The definition the module's name is bound to once the module is loaded:
\* a later def statement rebinds the name.
multivariate_normal_bound == multivariate_normal_defs[Len(multivariate_normal_defs)]

\* The body of the definition at line 249.
multivariate_normal_249(mean, cov, size, check_valid, tol) ==
    IF check_valid # NoneV THEN Raises("NotImplementedError")
    ELSE IF tol # NoneV THEN Raises("NotImplementedError")
    ELSE Returns(Backend(1), <<Call("_npi.mvn_fallback", <<mean, cov>>, [size |-> size])>>)

\* The body of the definition at line 552.
multivariate_normal_552(mean, cov, size) ==
    Returns(Backend(1), <<Call("_npi.mvn_fallback", <<mean, cov>>, [shape |-> size])>>)

\* A call random.multivariate_normal(mean, cov, ...) passing the optional
\* arguments named in given: Python binds them to the parameters of the
\* definition the name is bound to, and raises TypeError for one it lacks.
multivariate_normal(mean, cov, size, check_valid, tol, given) ==
    LET def == multivariate_normal_bound
    IN  IF ~(given \subseteq def.params) THEN Raises("TypeError")
        ELSE IF def.line = 249
        THEN multivariate_normal_249(mean, cov, size, check_valid, tol)
        ELSE multivariate_normal_552(mean, cov, size)

\* The sub-arrays an ndarray is made of, and the ndarrays themselves.
RowVals == {<<0, 1>>, <<2, 3>>}
ArrayVals == SeqsUpTo(RowVals, MaxRows)

\* The permutations of 1..n, as sequences.
Perms(n) == {q \in [1 .. n -> 1 .. n] : \A a, b \in 1 .. n : q[a] = q[b] => a = b}

\* The backend operator behind _npi.shuffle(data, out=out): the sub-arrays of
\* data in the order perm, written to the array out, or to a new array when
\* out is None.  It returns the array it wrote.
npi_shuffle(heap, data, out, perm) ==
    LET src == heap[data.id]
        shuffled == [k \in 1 .. Len(src) |-> src[perm[k]]]
    IN  IF out = NoneV
        THEN [ret |-> Len(heap) + 1, heap |-> Append(heap, shuffled)]
        ELSE [ret |-> out.id, heap |-> [heap EXCEPT ![out.id] = shuffled]]

ArrayRef(i) == [kind |-> "np_ndarray", id |-> i]

\* Mutant of shuffle: the backend is not told to write into x.
shuffle_no_out(heap, x, perm) ==
    LET b == npi_shuffle(heap, x, NoneV, perm)
    IN  [exc |-> "None", ret |-> NoneV, heap |-> b.heap,
         calls |-> <<Call("_npi.shuffle", <<x>>, [out |-> NoneV])>>]

\* shuffle(x): the call _npi.shuffle(x, out=x); the function has no return
\* statement.  perm is the order the backend draws.
shuffle(heap, x, perm) ==
    LET b == npi_shuffle(heap, x, x, perm)
    IN  [exc |-> "None", ret |-> NoneV, heap |-> b.heap,
         calls |-> <<Call("_npi.shuffle", <<x>>, [out |-> x])>>]

\* The values of choice's a: a one-dimensional ndarray, with its elements,
\* or a Python int.
ChoiceArrays ==
    {[kind |-> "np_ndarray", id |-> Len(v), shape |-> Shape(<<Len(v)>>), vals |-> v] :
        v \in {<<5, 7>>, <<4, 4, 9>>}}

\* How many samples a size asks for: one for None and for (), else the
\* product of the dimensions.
RECURSIVE Product(_)
Product(dims) == IF dims = <<>> THEN 1 ELSE Head(dims) * Product(Tail(dims))
NumSamples(size) == IF size = NoneV THEN 1 ELSE Product(size.dims)

\* The sequences of n draws from pop, without repetition unless rep.
Draws(pop, n, rep) ==
    {q \in [1 .. n -> pop] : rep \/ \A i, j \in 1 .. n : q[i] = q[j] => i = j}

\* The backend operator behind _npi.choice: the results it can return for the
\* call c.  With a=None the population is the positions 0 .. len-1 of the
\* input tensor, else it is arange(a).
npi_choice(c) ==
    LET len == IF c.kw.a = NoneV THEN Len(c.inputs[1].vals) ELSE c.kw.a.v
    IN  Draws(0 .. len - 1, NumSamples(c.kw.size), c.kw.replace)

\* The backend operator behind _npi.take(a, indices): the elements of a at
\* the zero-based positions indices.
npi_take(arr, indices) == [k \in DOMAIN indices |-> arr.vals[indices[k] + 1]]

\* The backend operator behind _npi.random_randint(low, high, shape=...): the
\* results it can return for the call c, integers of [low, high).
npi_random_randint(c) ==
    Draws(c.inputs[1].v .. c.inputs[2].v - 1, NumSamples(c.kw.shape), TRUE)

\* Mutant of choice: a given p is passed on, but the backend is told the draw
\* is unweighted.
choice_unweighted(a, size, replace, p, ctx, out) ==
    LET ctx1 == IF ctx = NoneV THEN current_context ELSE ctx
        size1 == IF size = Shape(<<>>) THEN NoneV ELSE size
    IN  IF is_np_ndarray(a)
        THEN IF p = NoneV
             THEN Returns(Backend(2),
                      <<Call("_npi.choice", <<a>>,
                             [a |-> NoneV, size |-> size1, replace |-> replace,
                              ctx |-> NoneV, weighted |-> FALSE]),
                        Call("_npi.take", <<a, Backend(1)>>, <<>>)>>)
             ELSE Returns(Backend(2),
                      <<Call("_npi.choice", <<a, p>>,
                             [a |-> NoneV, size |-> size1, replace |-> replace,
                              ctx |-> NoneV, weighted |-> FALSE]),
                        Call("_npi.take", <<a, Backend(1)>>, <<>>)>>)
        ELSE IF p = NoneV
             THEN Returns(Backend(1),
                      <<Call("_npi.choice", <<>>,
                             [a |-> a, size |-> size1, replace |-> replace,
                              ctx |-> ctx1, weighted |-> FALSE, out |-> out])>>)
             ELSE Returns(Backend(1),
                      <<Call("_npi.choice", <<p>>,
                             [a |-> a, size |-> size1, replace |-> replace,
                              ctx |-> ctx1, weighted |-> FALSE, out |-> out])>>)

\* choice(a, size, replace, p, ctx, out).  For an ndarray a the backend draws
\* indices, which are the second input of the take call that is returned.
choice(a, size, replace, p, ctx, out) ==
    LET ctx1 == IF ctx = NoneV THEN current_context ELSE ctx
        size1 == IF size = Shape(<<>>) THEN NoneV ELSE size
    IN  IF is_np_ndarray(a)
        THEN IF p = NoneV
             THEN Returns(Backend(2),
                      <<Call("_npi.choice", <<a>>,
                             [a |-> NoneV, size |-> size1, replace |-> replace,
                              ctx |-> NoneV, weighted |-> FALSE]),
                        Call("_npi.take", <<a, Backend(1)>>, <<>>)>>)
             ELSE Returns(Backend(2),
                      <<Call("_npi.choice", <<a, p>>,
                             [a |-> NoneV, size |-> size1, replace |-> replace,
                              ctx |-> NoneV, weighted |-> TRUE]),
                        Call("_npi.take", <<a, Backend(1)>>, <<>>)>>)
        ELSE IF p = NoneV
             THEN Returns(Backend(1),
                      <<Call("_npi.choice", <<>>,
                             [a |-> a, size |-> size1, replace |-> replace,
                              ctx |-> ctx1, weighted |-> FALSE, out |-> out])>>)
             ELSE Returns(Backend(1),
                      <<Call("_npi.choice", <<p>>,
                             [a |-> a, size |-> size1, replace |-> replace,
                              ctx |-> ctx1, weighted |-> TRUE, out |-> out])>>)

\* Mutant of randint: with high None the backend draws from [0, low].
randint_closed(low, high, size, dtype, ctx, out) ==
    LET dtype1 == IF dtype = NoneV THEN [kind |-> "dtype", name |-> "int"] ELSE dtype
        ctx1 == IF ctx = NoneV THEN current_context ELSE ctx
        size1 == IF size = NoneV THEN Shape(<<>>) ELSE size
        high1 == IF high = NoneV THEN Number(low.v + 1) ELSE high
        low1 == IF high = NoneV THEN Number(0) ELSE low
    IN  Returns(Backend(1),
            <<Call("_npi.random_randint", <<low1, high1>>,
                   [shape |-> size1, dtype |-> dtype1, ctx |-> ctx1, out |-> out])>>)

\* randint(low, high, size, dtype, ctx, out)
randint(low, high, size, dtype, ctx, out) ==
    LET dtype1 == IF dtype = NoneV THEN [kind |-> "dtype", name |-> "int"] ELSE dtype
        ctx1 == IF ctx = NoneV THEN current_context ELSE ctx
        size1 == IF size = NoneV THEN Shape(<<>>) ELSE size
        high1 == IF high = NoneV THEN low ELSE high
        low1 == IF high = NoneV THEN Number(0) ELSE low
    IN  Returns(Backend(1),
            <<Call("_npi.random_randint", <<low1, high1>>,
                   [shape |-> size1, dtype |-> dtype1, ctx |-> ctx1, out |-> out])>>)

\* A dispatcher was called with args and came out as o.
Dispatched(fn, args, o) ==
    /\ rlast' = [fn |-> fn, args |-> args, exc |-> o.exc, ret |-> o.ret, pre |-> arrays]
    /\ calls' = o.calls
    /\ arrays' = arrays
    /\ rargs' = rargs

\* The arguments of a call of uniform, normal or gamma (p1 and p2 are the two
\* distribution parameters), of multinomial, and of multivariate_normal (given
\* names the optional arguments the caller passes; the others are absent).
SamplerArgs ==
    [p1 : Params, p2 : Params, size : SizeArgs, dtype : DtypeArgs, ctx : CtxArgs,
     out : OutArgs]
MultinomialArgs ==
    [n : {Number(k) : k \in 1 .. MaxArg}, pvals : PvalsArgs, size : SizeArgs]
MvnArgs ==
    {a \in [mean : Tensors, cov : Tensors, size : SizeArgs,
            check_valid : {NoneV, [kind |-> "str", s |-> "warn"]},
            tol : {NoneV, Number(1)},
            given : SUBSET {"size", "check_valid", "tol"}] :
        /\ "size" \notin a.given => a.size = NoneV
        /\ "check_valid" \notin a.given => a.check_valid = NoneV
        /\ "tol" \notin a.given => a.tol = NoneV}

\* The arguments of a call of choice: without replacement the population
\* holds at least the samples asked for.
ChoiceArgs ==
    {c \in [a : ChoiceArrays \cup {Number(k) : k \in 1 .. MaxArg}, size : SizeArgs,
            replace : BOOLEAN, p : {NoneV} \cup Tensors, ctx : CtxArgs, out : OutArgs] :
        c.replace \/ NumSamples(c.size) <=
                         (IF is_np_ndarray(c.a) THEN Len(c.a.vals) ELSE c.a.v)}

\* The arguments of a call of randint: the interval drawn from is not empty.
RandintArgs ==
    {c \in [low : {Number(k) : k \in 1 .. MaxArg},
            high : {NoneV} \cup {Number(k) : k \in 1 .. MaxArg + 1},
            size : SizeArgs, dtype : {NoneV, [kind |-> "dtype", name |-> "int64"]},
            ctx : CtxArgs, out : OutArgs] :
        c.high # NoneV => c.low.v < c.high.v}

Uniform ==
    /\ rargs \in SamplerArgs
    /\ \E o \in {uniform(rargs.p1, rargs.p2, rargs.size, rargs.dtype, rargs.ctx, rargs.out)} :
          Dispatched("uniform", rargs, o)

Normal ==
    /\ rargs \in SamplerArgs
    /\ \E o \in {normal(rargs.p1, rargs.p2, rargs.size, rargs.dtype, rargs.ctx, rargs.out)} :
          Dispatched("normal", rargs, o)

Gamma ==
    /\ rargs \in SamplerArgs
    /\ \E o \in {gamma(rargs.p1, rargs.p2, rargs.size, rargs.dtype, rargs.ctx, rargs.out)} :
          Dispatched("gamma", rargs, o)

Multinomial ==
    /\ rargs \in MultinomialArgs
    /\ \E o \in {multinomial(rargs.n, rargs.pvals, rargs.size)} :
          Dispatched("multinomial", rargs, o)

MultivariateNormal ==
    /\ rargs \in MvnArgs
    /\ \E o \in {multivariate_normal(rargs.mean, rargs.cov, rargs.size,
                                     rargs.check_valid, rargs.tol, rargs.given)} :
          Dispatched("multivariate_normal", rargs, o)

\* A sampler was called with args, made the backend calls of o, and the
\* backend returned value.
Sampled(fn, args, o, value) ==
    /\ rlast' = [fn |-> fn, args |-> args, exc |-> o.exc, ret |-> o.ret,
                 pre |-> arrays, value |-> value]
    /\ calls' = o.calls
    /\ arrays' = arrays
    /\ rargs' = rargs

Choice ==
    /\ rargs \in ChoiceArgs
    /\ \E o \in {choice(rargs.a, rargs.size, rargs.replace, rargs.p, rargs.ctx, rargs.out)} :
       \E indices \in npi_choice(o.calls[1]) :
          Sampled("choice", rargs, o,
                  IF o.ret = Backend(2)
                  THEN npi_take(o.calls[2].inputs[1], indices) ELSE indices)

Randint ==
    /\ rargs \in RandintArgs
    /\ \E o \in {randint(rargs.low, rargs.high, rargs.size, rargs.dtype, rargs.ctx, rargs.out)} :
       \E drawn \in npi_random_randint(o.calls[1]) :
          Sampled("randint", rargs, o, drawn)

Shuffle(i, perm) ==
    \E o \in {shuffle(arrays, ArrayRef(i), perm)} :
        /\ rlast' = [fn |-> "shuffle", args |-> [x |-> ArrayRef(i)], exc |-> o.exc,
                     ret |-> o.ret, pre |-> arrays]
        /\ calls' = o.calls
        /\ arrays' = o.heap
        /\ rargs' = rargs

RIdle ==
    /\ calls = <<>>
    /\ rlast = [fn |-> "none", args |-> NoneV, exc |-> "None", ret |-> NoneV, pre |-> <<>>]

\* random.py at rest: no call made, no array in play.
RRest == rargs = NoneV /\ arrays = <<>> /\ RIdle

\* The dispatchers' specification starts with the caller's arguments drawn.
RInit ==
    /\ rargs \in SamplerArgs \cup MultinomialArgs \cup MvnArgs \cup ChoiceArgs
                 \cup RandintArgs
    /\ arrays = <<>>
    /\ RIdle

\* shuffle's specification starts with the caller holding two arrays.
SInit == rargs = NoneV /\ (\E a, b \in ArrayVals : arrays = <<a, b>>) /\ RIdle

RNext ==
    \/ Uniform /\ UNCHANGED <<tvars, nvars, cvars, xvars>>
    \/ Normal /\ UNCHANGED <<tvars, nvars, cvars, xvars>>
    \/ Gamma /\ UNCHANGED <<tvars, nvars, cvars, xvars>>
    \/ Multinomial /\ UNCHANGED <<tvars, nvars, cvars, xvars>>
    \/ MultivariateNormal /\ UNCHANGED <<tvars, nvars, cvars, xvars>>
    \/ Choice /\ UNCHANGED <<tvars, nvars, cvars, xvars>>
    \/ Randint /\ UNCHANGED <<tvars, nvars, cvars, xvars>>

SNext ==
    \E i \in DOMAIN arrays : \E perm \in Perms(Len(arrays[i])) :
        Shuffle(i, perm) /\ UNCHANGED <<tvars, nvars, cvars, xvars>>

(***************************************************************************)
(* transformation.py: what the transformations compute                     *)
(***************************************************************************)

\* The outcome of evaluating an expression: a value, or an exception.
Value(v) == [exc |-> "None", ret |-> v]
Raised(e) == [exc |-> e, ret |-> NoneV]

\* The backend handle a transformation is given as F.
FNd == [F |-> "ndarray"]

\* F.np.exp and F.np.log, as terms; F.np.abs; F.np.ones_like of a scalar.
np_exp(x) == [fn |-> "exp", arg |-> x]
np_log(x) == [fn |-> "log", arg |-> x]
np_abs(x) == AbsQ(x)
np_ones_like(x) == One

\* Python's * and unary - on tensors: computed on numbers, terms otherwise.
IsNum(v) == DOMAIN v = {"a", "b", "d"}
Times(u, v) == IF IsNum(u) /\ IsNum(v) THEN Mul(u, v) ELSE [fn |-> "mul", l |-> u, r |-> v]
Negate(v) == IF IsNum(v) THEN Neg(v) ELSE [fn |-> "neg", arg |-> v]

\* Transformation.__init__(F) followed by the subclass's own assignments.
TransformationInit(F, loc, scale) == ("_F" :> F) @@ ("_loc" :> loc) @@ ("_scale" :> scale)

\* ExpTransform
ExpTransform_forward_compute(self, x) ==
    IF self["_F"] = NoneV THEN Raised("AttributeError") ELSE Value(np_exp(x))
ExpTransform_inverse_compute(self, y) ==
    IF self["_F"] = NoneV THEN Raised("AttributeError") ELSE Value(np_log(y))
ExpTransform_log_det_jacobian(self, x, y) == Value(x)

\* Mutant of AffineTransform._inverse_compute: y / scale - loc.
AffineTransform_inverse_scale_first(self, y) ==
    Value(Sub(Div(y, self["_scale"]), self["_loc"]))

\* AffineTransform
AffineTransform_forward_compute(self, x) ==
    Value(Add(self["_loc"], Mul(self["_scale"], x)))
AffineTransform_inverse_compute(self, y) ==
    Value(Div(Sub(y, self["_loc"]), self["_scale"]))
AffineTransform_log_det_jacobian(self, x, y) ==
    IF self["_F"] = NoneV THEN Raised("AttributeError")
    ELSE Value(Times(np_ones_like(x), np_log(np_abs(self["_scale"]))))

\* Method lookup on forward object t.
forward_compute(t, x) ==
    IF t = ExpT THEN ExpTransform_forward_compute(tattr[t], x)
    ELSE AffineTransform_forward_compute(tattr[t], x)
inverse_compute(t, y) ==
    IF t = ExpT THEN ExpTransform_inverse_compute(tattr[t], y)
    ELSE AffineTransform_inverse_compute(tattr[t], y)
log_det_jacobian(t, x, y) ==
    IF t = ExpT THEN ExpTransform_log_det_jacobian(tattr[t], x, y)
    ELSE AffineTransform_log_det_jacobian(tattr[t], x, y)

\* Transformation.__call__
TransformationCall(t, x) == forward_compute(t, x)

\* Mutant of _InverseTransformation.__call__: the view computes forwards.
InverseCallForward(fwd, x) == forward_compute(fwd, x)

\* _InverseTransformation.__call__ on an inverse object whose _inv is fwd.
InverseCall(fwd, x) == inverse_compute(fwd, x)

\* _InverseTransformation.log_det_jacobian on an inverse object whose _inv is fwd.
InverseLogDetJacobian(fwd, x, y) ==
    LET o == log_det_jacobian(fwd, y, x)
    IN  IF o.exc # "None" THEN o ELSE Value(Negate(o.ret))

\* The numbers transformation parameters and arguments are drawn from.
TNums == Nums \cup {Sqrt2}

CIdle == clast = [op |-> "none", t |-> NoRef, out |-> Value(NoneV)]

\* The transformations at rest: ExpTransform() and AffineTransform(0, 1).
CRest ==
    /\ tattr = [t \in Forward |->
                   IF t = ExpT THEN TransformationInit(NoneV, Unset, Unset)
                   ELSE TransformationInit(NoneV, Zero, One)]
    /\ cargs = NoneV
    /\ CIdle

\* ExpTransform(F) or ExpTransform(), and AffineTransform(loc, scale), whose
\* constructor passes no F on; the caller has two scalar tensors x and y.
CInit ==
    /\ \E F \in {NoneV, FNd}, loc \in Nums, scale \in TNums :
          tattr = [t \in Forward |->
                      IF t = ExpT THEN TransformationInit(F, Unset, Unset)
                      ELSE TransformationInit(NoneV, loc, scale)]
    /\ cargs \in [x : TNums, y : TNums]
    /\ CIdle

\* An expression on t was evaluated with outcome out.
Evaluated(op, t, out) ==
    /\ clast' = [op |-> op, t |-> t, out |-> out]
    /\ UNCHANGED <<tattr, cargs, nvars, rvars, xvars>>

\* t.F = value, for a t that has no F yet
SetF(t, value) ==
    /\ tattr[t]["_F"] = NoneV
    /\ tattr' = [tattr EXCEPT ![t] = [@ EXCEPT !["_F"] = value]]
    /\ clast' = [op |-> "F=", t |-> t, out |-> Value(NoneV)]
    /\ UNCHANGED <<tvars, cargs, nvars, rvars, xvars>>

\* t(x)
ForwardCall(t) ==
    /\ Evaluated("t(x)", t, TransformationCall(t, cargs.x))
    /\ UNCHANGED tvars

\* t.inv(y): the getter, then the call of the object it returned.
CallInv(t) ==
    /\ AccessInv(t, FALSE)
    /\ Evaluated("t.inv(y)", t, InverseCall(fwd_of'[tlast'.ret], cargs.y))

\* t.inv.log_det_jacobian(x, y)
LogDetJacobianInv(t) ==
    /\ AccessInv(t, FALSE)
    /\ Evaluated("t.inv.log_det_jacobian(x, y)", t,
                 InverseLogDetJacobian(fwd_of'[tlast'.ret], cargs.x, cargs.y))

\* t.inv(t(x)): the getter runs first, then the argument is evaluated.
InvOfCall(t) ==
    /\ AccessInv(t, FALSE)
    /\ \E u \in {TransformationCall(t, cargs.x)} :
          Evaluated("t.inv(t(x))", t,
                    IF u.exc # "None" THEN u ELSE InverseCall(fwd_of'[tlast'.ret], u.ret))

\* t(t.inv(y))
CallOfInv(t) ==
    /\ AccessInv(t, FALSE)
    /\ \E u \in {InverseCall(fwd_of'[tlast'.ret], cargs.y)} :
          Evaluated("t(t.inv(y))", t,
                    IF u.exc # "None" THEN u ELSE TransformationCall(t, u.ret))

CNext ==
    \/ SetF(AffineT, FNd)
    \/ \E t \in Forward : ForwardCall(t)
    \/ \E t \in Forward : CallInv(t)
    \/ \E t \in Forward : LogDetJacobianInv(t)
    \/ \E t \in Forward : InvOfCall(t)
    \/ \E t \in Forward : CallOfInv(t)

(***************************************************************************)
(* test_numpy_op.py: npx.slice against basic indexing                      *)
(***************************************************************************)

\* Bound: the length of the first axis of the arrays sliced, beside the
\* test's own array.
AxisLen == 3

\* shape = (8, 16, 9, 9)
TestShape == <<8, 16, 9, 9>>

\* A step argument that is a list, as distinct from None.
List(items) == [kind |-> "list", items |-> items]

\* The test's configs: (begin, end, step) with None for an absent entry.
configs ==
    LET N == NoneV
        I(q) == [k \in DOMAIN q |-> Number(q[k])]
        L(q) == List(I(q))
    IN  {<<<<>>, <<>>, N>>,
         <<<<>>, <<>>, List(<<>>)>>,
         <<I(<<1>>), I(<<4>>), N>>,
         <<I(<<1>>), I(<<10>>), L(<<3>>)>>,
         <<I(<<10>>), I(<<0>>), L(<<-2>>)>>,
         <<<<N>>, <<N>>, List(<<N>>)>>,
         <<<<N>>, <<N>>, L(<<-1>>)>>,
         <<I(<<10>>), <<N>>, L(<<-1>>)>>,
         <<I(<<1, 0, 3>>), I(<<-2, 10, -4>>), List(<<N, Number(2), Number(3)>>)>>,
         <<I(<<-2, -3, -5, -6>>), I(<<1, 3, 4, 5>>), N>>,
         <<I(<<-2, -3, -5, -6>>), I(<<1, 3, 4, 5>>), L(<<-1, -2, -3, -4>>)>>,
         <<I(<<2, -3, -5, -6>>), I(<<2, 3, 4, 5>>), N>>,
         <<I(<<2, -3, -5, 5>>), I(<<3, 3, 4, 5>>), N>>}

\* How many indices range(start, stop, step) runs through.
RangeLen(start, stop, step) ==
    IF step > 0
    THEN (IF start < stop THEN (stop - start - 1) \div step + 1 ELSE 0)
    ELSE (IF stop < start THEN (start - stop - 1) \div (-step) + 1 ELSE 0)

\* The positions start, start + step, ... of a run of n indices.
Positions(start, step, n) == [k \in 1 .. n |-> start + (k - 1) * step]

Max2(m, n) == IF m > n THEN m ELSE n
Min2(m, n) == IF m < n THEN m ELSE n

\* slice(start, stop, step).indices(length): Python's resolution of a slice
\* against an axis, as the positions it selects.
slice_indices(sl, length) ==
    LET step == IF sl.step = NoneV THEN 1 ELSE sl.step.v
        lower == IF step < 0 THEN -1 ELSE 0
        upper == IF step < 0 THEN length - 1 ELSE length
        start == IF sl.start = NoneV THEN (IF step < 0 THEN upper ELSE lower)
                 ELSE IF sl.start.v < 0 THEN Max2(sl.start.v + length, lower)
                 ELSE Min2(sl.start.v, upper)
        stop == IF sl.stop = NoneV THEN (IF step < 0 THEN lower ELSE upper)
                ELSE IF sl.stop.v < 0 THEN Max2(sl.stop.v + length, lower)
                ELSE Min2(sl.stop.v, upper)
    IN  Positions(start, step, RangeLen(start, stop, step))

\* Mutant of basic_index: the step list is never consulted.
basic_index_unit_step(start, end, step) ==
    [i \in DOMAIN start |-> [start |-> start[i], stop |-> end[i], step |-> NoneV]]

\* The test's basic_index: slice(start[i], end[i], step[i]) for each listed
\* axis, or slice(start[i], end[i]) when step is None.
basic_index(start, end, step) ==
    [i \in DOMAIN start |->
        IF step # NoneV
        THEN [start |-> start[i], stop |-> end[i], step |-> step.items[i]]
        ELSE [start |-> start[i], stop |-> end[i], step |-> NoneV]]

\* The elements of arange(prod(dims)).reshape(dims) at the positions sel
\* selects on each axis, in row-major order, with the shape of the selection.
RECURSIVE ValueAt(_, _, _)
ValueAt(dims, sel, k) ==
    IF dims = <<>> THEN 0
    ELSE LET inner == Product([i \in 1 .. Len(sel) - 1 |-> Len(sel[i + 1])])
         IN  sel[1][k \div inner + 1] * Product(Tail(dims))
                 + ValueAt(Tail(dims), Tail(sel), k % inner)
Selection(dims, sel) ==
    LET shape == [i \in DOMAIN sel |-> Len(sel[i])]
    IN  [shape |-> shape,
         elems |-> [k \in 1 .. Product(shape) |-> ValueAt(dims, sel, k - 1)]]

\* np_array[index] for a tuple of slices: axes past the tuple are taken whole.
np_getitem(dims, index) ==
    Selection(dims, [i \in DOMAIN dims |->
                        IF i <= Len(index) THEN slice_indices(index[i], dims[i])
                        ELSE Positions(0, 1, dims[i])])

\* The backend operator behind npx.slice(a, begin, end, step): on each listed
\* axis, begin and end default by the sign of the step, negative values count
\* from the end, and both are clamped to the axis; axes past the lists are
\* taken whole.
npx_slice_axis(length, begin, end, step) ==
    LET s == IF step = NoneV THEN 1 ELSE step.v
        b0 == IF begin = NoneV THEN (IF s < 0 THEN length - 1 ELSE 0) ELSE begin.v
        e0 == IF end = NoneV THEN (IF s < 0 THEN -1 ELSE length) ELSE end.v
        b1 == IF b0 < 0 THEN b0 + length ELSE b0
        e1 == IF e0 < 0 /\ end # NoneV THEN e0 + length ELSE e0
        b2 == IF b1 < 0 /\ s > 0 THEN 0 ELSE b1
        b3 == IF b2 > length - 1 /\ s < 0 THEN length - 1 ELSE b2
        b == IF b3 < 0 \/ b3 > length - 1 THEN -1 ELSE b3
        e2 == IF e1 > -1 THEN e1 ELSE -1
        e == IF e2 > length THEN length ELSE e2
    IN  Positions(b, s, IF e # b /\ b >= 0 THEN RangeLen(b, e, s) ELSE 0)
npx_slice(dims, begin, end, step) ==
    Selection(dims, [i \in DOMAIN dims |->
                        IF i <= Len(begin)
                        THEN npx_slice_axis(dims[i], begin[i], end[i],
                                            IF step = NoneV \/ step.items = <<>>
                                            THEN NoneV ELSE step.items[i])
                        ELSE Positions(0, 1, dims[i])])

\* TestSlice.hybrid_forward(F, a), F being the symbol module when the block
\* is hybridized and the ndarray module when it is not.
hybrid_forward(F, dims, begin, end, step) == npx_slice(dims, begin, end, step)

\* same(a, b)
same(u, v) == u = v

\* The entries of a begin or end list on the first axis, which run past the
\* axis on both sides, the steps, and the entries on the second axis.
IndexArgs == {NoneV} \cup {Number(n) : n \in (-(AxisLen + 2)) .. (AxisLen + 2)}
StepArgs == {NoneV} \cup {Number(n) : n \in {-2, -1, 1, 2}}
IndexArgs2 == {NoneV, Number(-1), Number(1)}
StepArgs2 == {NoneV, Number(-1)}

\* One slice: the shape of the array and the begin, end and step lists, step
\* being None or a list as long as begin.
SliceArgs ==
    {[dims |-> TestShape, start |-> c[1], end |-> c[2], step |-> c[3]] : c \in configs}
    \cup {[dims |-> <<AxisLen, 2>>, start |-> <<>>, end |-> <<>>, step |-> st] :
             st \in {NoneV, List(<<>>)}}
    \cup {[dims |-> <<AxisLen, 2>>, start |-> <<b>>, end |-> <<e>>, step |-> st] :
             b \in IndexArgs, e \in IndexArgs, st \in {NoneV} \cup {List(<<t>>) : t \in StepArgs}}
    \cup {[dims |-> <<AxisLen, 2>>, start |-> <<b[1], b[2]>>, end |-> <<e[1], e[2]>>,
           step |-> st] :
             b \in IndexArgs \X IndexArgs2, e \in IndexArgs \X IndexArgs2,
             st \in {NoneV} \cup {List(t) : t \in StepArgs \X StepArgs2}}

XIdle == xlast = [op |-> "none", hybridize |-> FALSE, y |-> NoneV, expected |-> NoneV,
                  passed |-> FALSE]
XRest == xargs = NoneV /\ XIdle
XInit == xargs \in SliceArgs /\ XIdle

\* One iteration of the test's loops, up to the first assertion.
TestNpxSlice(hybridize) ==
    LET F == IF hybridize THEN "symbol" ELSE "ndarray"
        expected_ret == np_getitem(xargs.dims,
                                   basic_index(xargs.start, xargs.end, xargs.step))
        y == hybrid_forward(F, xargs.dims, xargs.start, xargs.end, xargs.step)
    IN  /\ xlast' = [op |-> "test_npx_slice", hybridize |-> hybridize, y |-> y,
                     expected |-> expected_ret, passed |-> same(y, expected_ret)]
        /\ UNCHANGED <<xargs, tvars, cvars, nvars, rvars>>

XNext == \E hybridize \in BOOLEAN : TestNpxSlice(hybridize)

(***************************************************************************)
(* Specifications                                                          *)
(***************************************************************************)

\* Each specification starts the part of the state it does not touch at rest.
NRest ==
    /\ normals = <<>>
    /\ nlast = [op |-> "none", recv |-> 0, arg |-> NoneV, exc |-> "None",
                ret |-> NoneV, pre |-> <<>>]

InitT == TInit /\ CRest /\ NRest /\ RRest /\ XRest
InitC == TInit /\ CInit /\ NRest /\ RRest /\ XRest
InitN == TInit /\ CRest /\ NInit /\ RRest /\ XRest
InitR == TInit /\ CRest /\ NRest /\ RInit /\ XRest
InitS == TInit /\ CRest /\ NRest /\ SInit /\ XRest
InitX == TInit /\ CRest /\ NRest /\ RRest /\ XInit

SpecT == InitT /\ [][TNext]_vars
SpecC == InitC /\ [][CNext]_vars
SpecN == InitN /\ [][NNext]_vars
SpecR == InitR /\ [][RNext]_vars
SpecS == InitS /\ [][SNext]_vars
SpecX == InitX /\ [][XNext]_vars

(***************************************************************************)
(* Claims about transformation.py, checked under SpecT                     *)
(***************************************************************************)

\* C1: for every forward transformation t, after any sequence of accesses to
\* t.inv, t.inv.inv is t itself: the access returns t's identity, and the
\* inverse object a forward transformation caches leads back to it.
C1_InvInvIsSelf ==
    /\ tlast.op = "inv.inv" => tlast.ret = tlast.t
    /\ \A t \in Forward :
          Deref(inv_ref[t]) # NoRef =>
              InverseInv(inv_ref[t], fwd_of[inv_ref[t]]) = t

\* C1 witness: t.inv.inv evaluated after an earlier inverse of t was collected,
\* so that the access went through a second inverse object.
C1_Witness ==
    /\ tlast.op = "inv.inv"
    /\ tlast.created
    /\ tlast.cached # NoRef
    /\ tlast.ret = tlast.t

\* C2: the inverse is cached: while an object an earlier access to t.inv
\* returned is still held by the caller, an access to t.inv returns that
\* object and constructs none, and at most one live inverse object exists per
\* forward transformation.
C2_InverseCached ==
    /\ (tlast.op = "inv" /\ tlast.earlier_held # {}) =>
          (tlast.ret \in tlast.earlier_held /\ ~tlast.created)
    /\ \A t \in Forward : Cardinality({i \in alive : fwd_of[i] = t}) <= 1

\* C2 witness: a second access to t.inv while the first result is still held.
C2_Witness ==
    /\ tlast.op = "inv"
    /\ tlast.earlier_held # {}
    /\ tlast.ret \in held
    /\ ~tlast.created

\* C3: the forward transformation's reference to its inverse is weak: when the
\* cached inverse has been collected, the next access to t.inv does not return
\* None but constructs a fresh _InverseTransformation bound to t and installs
\* it as the cached inverse.
C3_RecreatedAfterCollection ==
    /\ tlast.op = "inv" => tlast.ret # NoRef
    /\ (tlast.op = "inv" /\ tlast.cached # NoRef /\ ~tlast.cached_live) =>
          /\ tlast.created
          /\ tlast.ret # tlast.cached
          /\ fwd_of[tlast.ret] = tlast.t
          /\ inv_ref[tlast.t] = tlast.ret

\* C3 witness: an access to t.inv that found the weakref dead, while the
\* forward object still pointed at the collected inverse.
C3_Witness ==
    /\ tlast.op = "inv"
    /\ tlast.cached # NoRef
    /\ ~tlast.cached_live
    /\ tlast.created
    /\ tlast.ret \in alive

\* C16: the inverse view delegates to its forward transformation with the
\* roles swapped: t.inv(y) is t._inverse_compute(y), and
\* t.inv.log_det_jacobian(x, y) is the negation of t.log_det_jacobian(y, x),
\* an exception of the forward method being the view's outcome as it is.
C16_InverseDelegates ==
    /\ clast.op = "t.inv(y)" => clast.out = inverse_compute(clast.t, cargs.y)
    /\ clast.op = "t.inv.log_det_jacobian(x, y)" =>
          LET o == log_det_jacobian(clast.t, cargs.y, cargs.x)
          IN  clast.out = IF o.exc # "None" THEN o ELSE Value(Negate(o.ret))

\* C16 witness: the inverse view of an ExpTransform gave -y, not -x, as the
\* log-det-Jacobian at (x, y).
C16_Witness ==
    /\ clast.op = "t.inv.log_det_jacobian(x, y)"
    /\ clast.t = ExpT
    /\ cargs.x # cargs.y
    /\ cargs.y # Zero
    /\ clast.out = Value(Neg(cargs.y))
    /\ clast.out # Value(Neg(cargs.x))

\* C17: for an AffineTransform with scale # 0, t(x) = loc + scale * x,
\* t.inv(y) = (y - loc) / scale, t.inv(t(x)) = x and t(t.inv(y)) = y.
C17_AffineRoundTrip ==
    (clast.t = AffineT /\ tattr[AffineT]["_scale"] # Zero) =>
        LET loc == tattr[AffineT]["_loc"]
            scale == tattr[AffineT]["_scale"]
        IN  /\ clast.op = "t(x)" => clast.out = Value(Add(loc, Mul(scale, cargs.x)))
            /\ clast.op = "t.inv(y)" => clast.out = Value(Div(Sub(cargs.y, loc), scale))
            /\ clast.op = "t.inv(t(x))" => clast.out = Value(cargs.x)
            /\ clast.op = "t(t.inv(y))" => clast.out = Value(cargs.y)

\* C17 witness: t.inv(t(x)) gave x back for an irrational scale, a nonzero
\* loc and a nonzero x.
C17_Witness ==
    /\ clast.op = "t.inv(t(x))"
    /\ clast.t = AffineT
    /\ tattr[AffineT]["_scale"] = Sqrt2
    /\ tattr[AffineT]["_loc"] \notin {Zero, NaN}
    /\ cargs.x # Zero
    /\ clast.out = Value(cargs.x)

(***************************************************************************)
(* Claims about normal.py, checked under SpecN                             *)
(***************************************************************************)

\* C4: loc and scale of a Normal instance are immutable after construction:
\* no method call changes an attribute of an existing instance, and a
\* broadcast_to that returns, returns a new instance, distinct from the
\* receiver.
C4_LocScaleImmutable ==
    [][/\ \A i \in DOMAIN normals :
             i \in DOMAIN normals' /\ normals'[i] = normals[i]
       /\ (nlast'.op = "broadcast_to" /\ nlast'.exc = "None") =>
             /\ nlast'.ret.ref # nlast'.recv
             /\ nlast'.ret.ref \notin DOMAIN normals
             /\ nlast'.ret.ref \in DOMAIN normals']_vars

\* C4 witness: broadcast_to has returned a second instance and the receiver
\* is what it was before the call.
C4_Witness ==
    /\ nlast.op = "broadcast_to"
    /\ nlast.exc = "None"
    /\ nlast.ret.ref \in DOMAIN normals
    /\ nlast.ret.ref # nlast.recv
    /\ normals[nlast.recv] = nlast.pre[nlast.recv]
    /\ normals[nlast.recv]["_loc"].shape # normals[nlast.ret.ref]["loc"].shape

\* C7: Normal.support() raises NotImplementedError for every instance and
\* leaves the heap of instances as it found it.
C7_SupportNotImplemented ==
    nlast.op = "support" =>
        (nlast.exc = "NotImplementedError" /\ normals = nlast.pre)

\* C7 witness: support() called on an instance with a non-unit scale, next to
\* an instance broadcast_to made.
C7_Witness ==
    /\ nlast.op = "support"
    /\ nlast.exc = "NotImplementedError"
    /\ Len(normals) > 1
    /\ normals[nlast.recv]["_scale"] # Unset
    /\ normals[nlast.recv]["_scale"].x \notin {Zero, One}

\* The scale an instance carries: the attribute __init__ sets, or the one
\* broadcast_to sets.
ScaleOf(self) == IF self["_scale"] # Unset THEN self["_scale"] ELSE self["scale"]

\* C9: for every Normal with nonzero scale and every probability p strictly
\* between 0 and 1, cdf(icdf(p)) = p.
C9_CdfIcdfRoundTrip ==
    (nlast.op = "cdf(icdf)" /\ ScaleOf(normals[nlast.recv]).x # Zero) =>
        (nlast.exc = "None" /\ nlast.ret.x = nlast.arg.x)

\* The identity of C9 on the instances Normal.__init__ made.
CdfIcdfOnConstructed ==
    (/\ nlast.op = "cdf(icdf)"
     /\ normals[nlast.recv]["_scale"] # Unset
     /\ normals[nlast.recv]["_scale"].x # Zero) =>
        (nlast.exc = "None" /\ nlast.ret.x = nlast.arg.x)

\* The identity is exercised with a shifted, scaled distribution off the median.
CdfIcdfOnConstructedSeen ==
    /\ nlast.op = "cdf(icdf)"
    /\ normals[nlast.recv]["_scale"] # Unset
    /\ normals[nlast.recv]["_scale"].x \notin {Zero, One}
    /\ normals[nlast.recv]["_loc"].x # Zero
    /\ nlast.arg.x # Half
    /\ nlast.exc = "None"

\* C15: the instance broadcast_to returns (the one carrying the broadcast loc
\* and scale) is a usable Normal: mean, variance, log_prob, cdf, icdf, sample
\* and sample_n on it do not raise, its mean is the broadcast loc and its
\* variance the square of the broadcast scale.
C15_BroadcastUsable ==
    (/\ nlast.op \in {"mean", "variance", "log_prob", "cdf", "icdf", "sample", "sample_n"}
     /\ normals[nlast.recv]["loc"] # Unset) =>
        /\ nlast.exc = "None"
        /\ nlast.op = "mean" => nlast.ret = normals[nlast.recv]["loc"]
        /\ nlast.op = "variance" => nlast.ret = VSquare(normals[nlast.recv]["scale"])

(***************************************************************************)
(* Claims about random.py, checked under SpecR and SpecS                   *)
(***************************************************************************)

\* C5: multivariate_normal(mean, cov, size, check_valid, tol) raises
\* NotImplementedError, with no backend call, whenever check_valid or tol is
\* not None; when both are None it forwards mean, cov and size to the backend.
C5_MvnNotImplemented ==
    rlast.fn = "multivariate_normal" =>
        LET a == rlast.args
        IN  IF a.check_valid # NoneV \/ a.tol # NoneV
            THEN rlast.exc = "NotImplementedError" /\ calls = <<>>
            ELSE /\ rlast.exc = "None"
                 /\ Len(calls) = 1
                 /\ calls[1].fn = "_npi.mvn_fallback"
                 /\ calls[1].inputs = <<a.mean, a.cov>>
                 /\ \E k \in DOMAIN calls[1].kw : calls[1].kw[k] = a.size

\* The backend operator each sampler calls and the names of its two
\* distribution parameters.
BackendOf(fn) ==
    IF fn = "uniform" THEN "_npi.uniform"
    ELSE IF fn = "normal" THEN "_npi.normal" ELSE "_npi.gamma"
ParamNames(fn) ==
    IF fn = "uniform" THEN <<"low", "high">>
    ELSE IF fn = "normal" THEN <<"loc", "scale">> ELSE <<"shape", "scale">>

\* C6: multinomial raises ValueError, with no backend call, exactly when pvals
\* is not an NDArray and is a numpy ndarray or holds a nested list; otherwise
\* it makes one backend call, with pvals as the tensor input and the keyword
\* pvals=None when it is an NDArray, and as the keyword pvals when it is not.
C6_MultinomialErrors ==
    rlast.fn = "multinomial" =>
        LET a == rlast.args
            nested == \E k \in 1 .. Len(a.pvals.elems) : a.pvals.elems[k] = "list"
            refused == a.pvals.kind # "NDArray"
                           /\ (a.pvals.kind = "numpy.ndarray" \/ nested)
        IN  IF refused
            THEN rlast.exc = "ValueError" /\ calls = <<>>
            ELSE /\ rlast.exc = "None"
                 /\ Len(calls) = 1
                 /\ calls[1].fn = "_npi.multinomial"
                 /\ calls[1].kw.n = a.n
                 /\ calls[1].kw.size = a.size
                 /\ IF a.pvals.kind = "NDArray"
                    THEN calls[1].inputs = <<a.pvals>> /\ calls[1].kw.pvals = NoneV
                    ELSE calls[1].inputs = <<>> /\ calls[1].kw.pvals = a.pvals

\* C6 witness: a tuple holding a list is refused.
C6_Witness ==
    /\ rlast.fn = "multinomial"
    /\ rlast.args.pvals.kind = "tuple"
    /\ rlast.args.pvals.elems = <<"float", "list">>
    /\ rlast.exc = "ValueError"
    /\ calls = <<>>

\* C8: uniform, normal and gamma make exactly one backend call, in which the
\* tensor parameters are the positional inputs, in parameter order, each with
\* its keyword None, and each scalar parameter is passed under its own
\* keyword: none passed twice, dropped or under the other's name.
C8_SamplerDispatch ==
    rlast.fn \in {"uniform", "normal", "gamma"} =>
        LET a == rlast.args
            names == ParamNames(rlast.fn)
            given == <<a.p1, a.p2>>
        IN  /\ rlast.exc = "None"
            /\ Len(calls) = 1
            /\ calls[1].fn = BackendOf(rlast.fn)
            /\ calls[1].inputs = SelectSeq(given, is_np_ndarray)
            /\ \A k \in 1 .. 2 :
                  calls[1].kw[names[k]] =
                      IF is_np_ndarray(given[k]) THEN NoneV ELSE given[k]
            /\ DOMAIN calls[1].kw =
                  {names[1], names[2], "size", "ctx", "dtype", "out"}

\* C8 witness: uniform with a scalar low and a tensor high, of different values.
C8_Witness ==
    /\ rlast.fn = "uniform"
    /\ rlast.args.p1 = Number(2)
    /\ rlast.args.p2 = Tensor(1)
    /\ calls[1].inputs = <<Tensor(1)>>
    /\ calls[1].kw.low = Number(2)
    /\ calls[1].kw.high = NoneV

\* How often sub-array r occurs in array q.
Count(q, r) == Cardinality({k \in DOMAIN q : q[k] = r})

\* C10: shuffle(x) returns None and calls the backend once with x as input
\* and as out; afterwards x holds its original sub-arrays, each as often as
\* before, and no other array has changed.
C10_ShuffleInPlace ==
    rlast.fn = "shuffle" =>
        LET x == rlast.args.x
        IN  /\ rlast.exc = "None"
            /\ rlast.ret = NoneV
            /\ calls = <<Call("_npi.shuffle", <<x>>, [out |-> x])>>
            /\ DOMAIN arrays = DOMAIN rlast.pre
            /\ Len(arrays[x.id]) = Len(rlast.pre[x.id])
            /\ \A r \in RowVals : Count(arrays[x.id], r) = Count(rlast.pre[x.id], r)
            /\ \A j \in DOMAIN arrays : j # x.id => arrays[j] = rlast.pre[j]

\* C10 witness: a shuffle that reordered an array holding a repeated sub-array.
C10_Witness ==
    /\ rlast.fn = "shuffle"
    /\ arrays[rlast.args.x.id] # rlast.pre[rlast.args.x.id]
    /\ Len(arrays[rlast.args.x.id]) = MaxRows
    /\ \E r \in RowVals : Count(arrays[rlast.args.x.id], r) > 1

\* C11: choice with an ndarray a calls _npi.choice and returns
\* _npi.take(a, indices) on the indices drawn, so every sample returned is an
\* element of a; with an int a it returns the one backend call's result, drawn
\* from arange(a).  In both cases the backend is told weighted=True and gets
\* p as a tensor input exactly when p is not None.
C11_ChoiceDispatch ==
    rlast.fn = "choice" =>
        LET c == rlast.args
            weighted == c.p # NoneV
            pin == IF weighted THEN <<c.p>> ELSE <<>>
        IN  /\ rlast.exc = "None"
            /\ calls[1].fn = "_npi.choice"
            /\ calls[1].kw.weighted = weighted
            /\ IF is_np_ndarray(c.a)
               THEN /\ Len(calls) = 2
                    /\ calls[1].inputs = <<c.a>> \o pin
                    /\ calls[2] = Call("_npi.take", <<c.a, Backend(1)>>, <<>>)
                    /\ rlast.ret = Backend(2)
                    /\ \A k \in DOMAIN rlast.value :
                          \E j \in DOMAIN c.a.vals : rlast.value[k] = c.a.vals[j]
               ELSE /\ Len(calls) = 1
                    /\ calls[1].inputs = pin
                    /\ calls[1].kw.a = c.a
                    /\ rlast.ret = Backend(1)
                    /\ \A k \in DOMAIN rlast.value : rlast.value[k] \in 0 .. c.a.v - 1

\* C11 witness: two different elements drawn from an ndarray under weights p.
C11_Witness ==
    /\ rlast.fn = "choice"
    /\ is_np_ndarray(rlast.args.a)
    /\ rlast.args.p # NoneV
    /\ Len(calls) = 2
    /\ calls[1].kw.weighted
    /\ Len(rlast.value) = 2
    /\ rlast.value[1] # rlast.value[2]

\* C12: randint calls the backend once with the bounds (low, high), or
\* (0, low) when high is None, with dtype 'int' when dtype is None and the
\* shape () when size is None; every integer drawn lies in that half-open
\* interval.
C12_RandintInterval ==
    rlast.fn = "randint" =>
        LET c == rlast.args
            lo == IF c.high = NoneV THEN Number(0) ELSE c.low
            hi == IF c.high = NoneV THEN c.low ELSE c.high
        IN  /\ rlast.exc = "None"
            /\ rlast.ret = Backend(1)
            /\ Len(calls) = 1
            /\ calls[1].fn = "_npi.random_randint"
            /\ calls[1].inputs = <<lo, hi>>
            /\ calls[1].kw.dtype =
                  IF c.dtype = NoneV THEN [kind |-> "dtype", name |-> "int"] ELSE c.dtype
            /\ calls[1].kw.shape = IF c.size = NoneV THEN Shape(<<>>) ELSE c.size
            /\ \A k \in DOMAIN rlast.value :
                  lo.v <= rlast.value[k] /\ rlast.value[k] < hi.v

\* C12 witness: randint(low) with high, dtype and size left None drew low - 1.
C12_Witness ==
    /\ rlast.fn = "randint"
    /\ rlast.args.high = NoneV
    /\ rlast.args.dtype = NoneV
    /\ rlast.args.size = NoneV
    /\ rlast.args.low = Number(MaxArg)
    /\ calls[1].inputs = <<Number(0), Number(MaxArg)>>
    /\ rlast.value = <<MaxArg - 1>>

\* What uniform, normal and gamma send for dtype and ctx.
SamplerDtypeCtx ==
    LET c == rlast.args
    IN  /\ calls[1].kw.dtype =
              IF c.dtype = NoneV THEN [kind |-> "dtype", name |-> "float32"] ELSE c.dtype
        /\ calls[1].kw.ctx = IF c.ctx = NoneV THEN current_context ELSE c.ctx

\* C13, as stated: in uniform, normal and gamma, on every dispatch branch, a
\* dtype of None reaches the backend as 'float32', a ctx of None as the
\* current context, a given dtype or ctx unchanged, and a size of () as None.
C13_SamplerDefaults ==
    rlast.fn \in {"uniform", "normal", "gamma"} =>
        /\ SamplerDtypeCtx
        /\ rlast.args.size = Shape(<<>>) => calls[1].kw.size = NoneV

\* C13, amended: dtype and ctx as stated; a size of () reaches the backend as
\* None in uniform and normal, and in gamma when out is None; when gamma is
\* given out, the size sent is out.shape whatever the caller's size, with None
\* sent for an out.shape of ().
C13_SamplerDefaultsAmended ==
    rlast.fn \in {"uniform", "normal", "gamma"} =>
        LET c == rlast.args
        IN  /\ SamplerDtypeCtx
            /\ IF rlast.fn = "gamma" /\ c.out # NoneV
               THEN calls[1].kw.size =
                        IF c.out.shape = Shape(<<>>) THEN NoneV ELSE c.out.shape
               ELSE c.size = Shape(<<>>) => calls[1].kw.size = NoneV

\* C13 witness: gamma called with size () and an out of shape (3,), dtype and
\* ctx left None.
C13_Witness ==
    /\ rlast.fn = "gamma"
    /\ rlast.args.size = Shape(<<>>)
    /\ rlast.args.out # NoneV
    /\ rlast.args.out.shape = Shape(<<3>>)
    /\ rlast.args.dtype = NoneV
    /\ rlast.args.ctx = NoneV
    /\ calls[1].kw.size = Shape(<<3>>)
    /\ calls[1].kw.dtype = [kind |-> "dtype", name |-> "float32"]
    /\ calls[1].kw.ctx = current_context

(***************************************************************************)
(* Claims about test_numpy_op.py, checked under SpecX                      *)
(***************************************************************************)

====
